---- MODULE Spec2Model ----
(***************************************************************************)
(* State-machine model of src/image_editor.py: the ImageEditor main window *)
(* (current image, undo/redo stacks, zoom factor), its ImageLabel (crop /  *)
(* draw flags, gesture points, captured paths) and the pixmap shown by the *)
(* label.  One action per slot / event handler.                            *)
(*                                                                         *)
(* An image is a record [kind, w, h, px]: px[y][x] is the RGB pixel of row *)
(* y and column x (1-based).  kind is "image", or "truncated" for a file   *)
(* whose header Image.open has read but whose pixel data cannot be decoded *)
(* (every pixel access raises), or "none" for Python's None.  A stack      *)
(* entry is [im, alias]: alias = TRUE means the entry is the very object   *)
(* that current_image refers to.                                           *)
(***************************************************************************)
EXTENDS Integers, Sequences, FiniteSets

\* ---------------------------------------------------------------- bounds
\* Largest width / height entered in the resize dialog.
MaxDim == 2
\* Edits are offered while the undo stack holds fewer entries than this.
MaxUndo == 3
\* zoom_in is offered at most this many levels above 1.0, zoom_out below.
MaxZoomIn == 1
MaxZoomOut == 1
\* Width and height of the scroll area's viewport, in pixels.
ViewW == 4
ViewH == 4
\* Largest number of points in a freehand path, and of finished paths.
MaxPath == 2
MaxLines == 1

\* ------------------------------------------------------------ sentinels
\* Python's None for a point, a rectangle or the label's pixmap.
None == <<>>

\* ------------------------------------------------------------ arithmetic
Min(a, b) == IF a < b THEN a ELSE b
Max(a, b) == IF a > b THEN a ELSE b
Abs(a) == IF a < 0 THEN -a ELSE a
\* int(n / d) for d > 0: truncation toward zero.
Trunc(n, d) == IF n >= 0 THEN n \div d ELSE -((-n) \div d)
Clip8(v) == IF v <= 0 THEN 0 ELSE IF v >= 255 THEN 255 ELSE v

RECURSIVE Gcd(_, _)
Gcd(a, b) == IF b = 0 THEN a ELSE Gcd(b, a % b)

\* ---------------------------------------------------------------- pixels
Black == <<0, 0, 0>>
White == <<255, 255, 255>>
\* QColor("blue"), the brush colour; brush_size is the line width.
brush_color == <<0, 0, 255>>
brush_size == 3

\* The image w x h whose pixel at column x, row y is f[<<x, y>>].
MkImage(w, h, f) ==
    [kind |-> "image", w |-> w, h |-> h,
     px |-> [y \in 1..h |-> [x \in 1..w |-> f[<<x, y>>]]]]

Cells(w, h) == (1..w) \X (1..h)

\* Image.convert("L"): ITU-R 601-2 luma of an RGB pixel.
Luma(p) == (p[1] * 19595 + p[2] * 38470 + p[3] * 7471 + 32768) \div 65536

Gray(v) == <<v, v, v>>

\* img.convert("L").convert("RGB")
Grayscale(im) ==
    MkImage(im.w, im.h,
            [c \in Cells(im.w, im.h) |-> Gray(Luma(im.px[c[2]][c[1]]))])

\* The table built by the Sepia branch: one entry per i in range(255).
SepiaTableSize == 255
sepia ==
    [i \in 0..(SepiaTableSize - 1) |->
        <<(i * 240) \div 255, (i * 200) \div 255, (i * 145) \div 255>>]

\* img.point(f) on an "L" image evaluates f at every value 0..255 to build
\* its lookup table; f = lambda p: sepia[p] raises where sepia has no entry.
SepiaRaises == \E p \in 0..255 : p \notin DOMAIN sepia
Sepia(im) ==
    MkImage(im.w, im.h,
            [c \in Cells(im.w, im.h) |-> sepia[Luma(im.px[c[2]][c[1]])]])

\* img.filter(kernel): a square kernel of odd size n (k[<<i, j>>], i, j in
\* -r..r, r = n \div 2) with the sum divided by scale; the r border rows and
\* columns are copied from the input.
Convolve(im, r, k, scale) ==
    LET Inner(c) == /\ c[1] > r /\ c[1] <= im.w - r
                    /\ c[2] > r /\ c[2] <= im.h - r
        D == (-r..r) \X (-r..r)
        RECURSIVE Sum(_, _, _)
        Sum(S, c, ch) ==
            IF S = {} THEN 0
            ELSE LET d == CHOOSE e \in S : TRUE
                 IN k[d] * im.px[c[2] + d[2]][c[1] + d[1]][ch]
                    + Sum(S \ {d}, c, ch)
        Val(c, ch) == Clip8((2 * Sum(D, c, ch) + scale) \div (2 * scale))
    IN MkImage(im.w, im.h,
               [c \in Cells(im.w, im.h) |->
                   IF Inner(c)
                   THEN <<Val(c, 1), Val(c, 2), Val(c, 3)>>
                   ELSE im.px[c[2]][c[1]]])

\* ImageFilter.BLUR: 5 x 5, ones on the outer ring, scale 16.
Blur(im) ==
    Convolve(im, 2,
             [d \in (-2..2) \X (-2..2) |->
                 IF Abs(d[1]) = 2 \/ Abs(d[2]) = 2 THEN 1 ELSE 0], 16)

\* ImageFilter.SHARPEN: 3 x 3, centre 32, others -2, scale 16.
Sharpen(im) ==
    Convolve(im, 1,
             [d \in (-1..1) \X (-1..1) |-> IF d = <<0, 0>> THEN 32 ELSE -2], 16)

\* ImageFilter.FIND_EDGES: 3 x 3, centre 8, others -1, scale 1.
FindEdges(im) ==
    Convolve(im, 1,
             [d \in (-1..1) \X (-1..1) |-> IF d = <<0, 0>> THEN 8 ELSE -1], 1)

FilterNames == {"Grayscale", "Sepia", "Blur", "Sharpen", "Edge Detection"}

\* The if / elif chain of apply_filter: whether the branch raises, and the
\* image it computes otherwise.
FilterRaises(filter_name) == filter_name = "Sepia" /\ SepiaRaises
Filter(filter_name, im) ==
    CASE filter_name = "Grayscale" -> Grayscale(im)
      [] filter_name = "Sepia" -> Sepia(im)
      [] filter_name = "Blur" -> Blur(im)
      [] filter_name = "Sharpen" -> Sharpen(im)
      [] filter_name = "Edge Detection" -> FindEdges(im)
      [] OTHER -> im

\* ImageOps.mirror / ImageOps.flip
Mirror(im) ==
    MkImage(im.w, im.h,
            [c \in Cells(im.w, im.h) |-> im.px[c[2]][im.w + 1 - c[1]]])
Flip(im) ==
    MkImage(im.w, im.h,
            [c \in Cells(im.w, im.h) |-> im.px[im.h + 1 - c[2]][c[1]]])

\* im.rotate(-angle, expand=True) for an angle that is a multiple of 90:
\* the library angle is (-angle) mod 360; 0 copies, 180 / 90 / 270 transpose.
Rotate(im, angle) ==
    LET a == (-angle) % 360
    IN CASE a = 0 -> im
         [] a = 180 ->
            MkImage(im.w, im.h,
                    [c \in Cells(im.w, im.h) |->
                        im.px[im.h + 1 - c[2]][im.w + 1 - c[1]]])
         [] a = 90 ->
            MkImage(im.h, im.w,
                    [c \in Cells(im.h, im.w) |-> im.px[c[1]][im.w + 1 - c[2]]])
         [] a = 270 ->
            MkImage(im.h, im.w,
                    [c \in Cells(im.h, im.w) |-> im.px[im.h + 1 - c[1]][c[2]]])

\* im.crop((left, top, right, bottom)): size (right - left, bottom - top);
\* box is 0-based, pixels outside the source are black.
Crop(im, box) ==
    LET nw == box[3] - box[1]
        nh == box[4] - box[2]
    IN MkImage(nw, nh,
               [c \in Cells(nw, nh) |->
                   LET x == box[1] + c[1]
                       y == box[2] + c[2]
                   IN IF x \in 1..im.w /\ y \in 1..im.h
                      THEN im.px[y][x] ELSE Black])

\* im.resize((new_w, new_h), Image.ANTIALIAS): same size copies; otherwise
\* each target pixel samples the source pixel under its centre (the
\* resampling kernel itself is the library's); an empty source gives black.
Resize(im, new_w, new_h) ==
    IF im.w = new_w /\ im.h = new_h THEN im
    ELSE MkImage(new_w, new_h,
             [c \in Cells(new_w, new_h) |->
                 IF im.w = 0 \/ im.h = 0 THEN Black
                 ELSE im.px[((2 * c[2] - 1) * im.h) \div (2 * new_h) + 1]
                           [((2 * c[1] - 1) * im.w) \div (2 * new_w) + 1]])

\* ImageEnhance._Enhance.enhance: Image.blend(degenerate, image, factor),
\* factor given in hundredths (the slider value).
Blend(d, v, f) == Clip8(Trunc(d * 100 + f * (v - d), 100))
BlendPixel(d, p, f) ==
    <<Blend(d[1], p[1], f), Blend(d[2], p[2], f), Blend(d[3], p[3], f)>>

RECURSIVE SumLuma(_, _)
SumLuma(im, S) ==
    IF S = {} THEN 0
    ELSE LET c == CHOOSE e \in S : TRUE
         IN Luma(im.px[c[2]][c[1]]) + SumLuma(im, S \ {c})

\* ImageEnhance.Brightness / Contrast / Color, each followed by enhance().
Brightness(im, f) ==
    MkImage(im.w, im.h,
            [c \in Cells(im.w, im.h) |->
                BlendPixel(Black, im.px[c[2]][c[1]], f)])
\* Contrast takes the mean luma of the image (ImageStat), which divides by
\* the number of pixels.
ContrastRaises(im) == im.w * im.h = 0
Contrast(im, f) ==
    LET n == im.w * im.h
        mean == (2 * SumLuma(im, Cells(im.w, im.h)) + n) \div (2 * n)
    IN MkImage(im.w, im.h,
               [c \in Cells(im.w, im.h) |->
                   BlendPixel(Gray(mean), im.px[c[2]][c[1]], f)])
Color(im, f) ==
    MkImage(im.w, im.h,
            [c \in Cells(im.w, im.h) |->
                BlendPixel(Gray(Luma(im.px[c[2]][c[1]])), im.px[c[2]][c[1]], f)])

\* Brightness, then Contrast, then Color, as adjust_colors chains them.
AdjustRaises(im) == ContrastRaises(im)
AdjustColors(im, brightness, contrast, saturation) ==
    Color(Contrast(Brightness(im, brightness), contrast), saturation)

\* ------------------------------------------------------------------ files
\* The files the open dialog can return: an image, a file whose header
\* is intact and whose pixel data is cut short, and a file that is no image.
FileA ==
    [kind |-> "image", w |-> 2, h |-> 2,
     px |-> << <<White, Black>>, <<White, Black>> >>]
FileT == [kind |-> "truncated", w |-> 2, h |-> 2, px |-> <<>>]
FileX == [kind |-> "unreadable", w |-> 0, h |-> 0, px |-> <<>>]
Files == {FileA, FileT, FileX}

\* self.current_image = None
NoImage == [kind |-> "none", w |-> 0, h |-> 0, px |-> <<>>]

\* Python truth of self.current_image: any Image object is true.
HasImage(im) == im.kind # "none"
\* Whether the pixel data of im can be loaded (Image.load succeeds).
Loads(im) == im.kind = "image"

\* A copy() that hands back its argument instead of a new buffer: the
\* sharing that C8 excludes.
share(im) == [im |-> im, fresh |-> FALSE]

\* Image.copy(): a new buffer with the same pixels; fresh says that the
\* result is an object of its own.
copy(im) == [im |-> im, fresh |-> TRUE]

\* The stack with no entry marked as being the current image's object.
Unalias(stack) ==
    [i \in 1..Len(stack) |-> [stack[i] EXCEPT !.alias = FALSE]]

\* ------------------------------------------------------------------ zoom
\* zoom_factor is kept as the reduced fraction <<numerator, denominator>>.
ZoomOne == <<1, 1>>
Reduce(n, d) == <<n \div Gcd(n, d), d \div Gcd(n, d)>>
\* zoom_factor *= 1.25 and zoom_factor /= 1.25
ZoomTimes(z) == Reduce(z[1] * 5, z[2] * 4)
ZoomOver(z) == Reduce(z[1] * 4, z[2] * 5)

RECURSIVE Pow(_, _)
Pow(b, e) == IF e = 0 THEN 1 ELSE b * Pow(b, e - 1)

\* --------------------------------------------------------------- display
\* A pixmap is its size <<width, height>>; a null pixmap is <<0, 0>>.
NullPixmap == <<0, 0>>

\* QSize.scaled(w, h, Qt.KeepAspectRatio) of the size <<sw, sh>>, each side
\* at least 1 (QPixmap.scaled).
KeepAspect(sw, sh, w, h) ==
    LET rw == (h * sw) \div sh
        sz == IF rw <= w THEN <<rw, h>> ELSE <<w, (w * sh) \div sw>>
    IN <<Max(sz[1], 1), Max(sz[2], 1)>>

\* The pixmap update_display sets for a loaded image: pil2pixmap, then
\* int(width * zoom), int(height * zoom), then scaled(); an empty image or
\* an empty target size gives a null pixmap.
PixmapOf(im, z) ==
    LET w == (im.w * z[1]) \div z[2]
        h == (im.h * z[1]) \div z[2]
    IN IF im.w = 0 \/ im.h = 0 \/ w = 0 \/ h = 0
       THEN NullPixmap
       ELSE KeepAspect(im.w, im.h, w, h)

\* update_display: nothing without an image; pil2pixmap raises on an image
\* whose data cannot be loaded, leaving the label's pixmap as it was.
DisplayRaises(im) == HasImage(im) /\ ~Loads(im)
update_display(im, z, old) ==
    IF ~HasImage(im) \/ DisplayRaises(im) THEN old ELSE PixmapOf(im, z)

\* The label fills the scroll area's viewport and is never smaller than
\* its pixmap (setWidgetResizable(True)); the pixmap is centred in it.
LabelSize(pm) == <<Max(ViewW, pm[1]), Max(ViewH, pm[2])>>

\* ----------------------------------------------------------------- state
VARIABLES
    current_image,  \* ImageEditor.current_image
    undo_stack,     \* ImageEditor.undo_stack: entries [im, alias]
    redo_stack,     \* ImageEditor.redo_stack: entries [im, alias]
    zoom_factor,    \* ImageEditor.zoom_factor
    pixmap,         \* size of image_label.pixmap(), None before the first
    cropping,       \* ImageLabel.cropping
    drawing,        \* ImageLabel.drawing
    start_point,    \* ImageLabel.start_point
    end_point,      \* ImageLabel.end_point
    drawing_lines,  \* ImageLabel.drawing_lines
    current_path    \* ImageLabel.current_path

hist_vars == <<current_image, undo_stack, redo_stack>>
view_vars == <<zoom_factor, pixmap>>
label_vars ==
    <<cropping, drawing, start_point, end_point, drawing_lines, current_path>>
vars == <<hist_vars, view_vars, label_vars>>

Init ==
    /\ current_image = NoImage
    /\ undo_stack = <<>>
    /\ redo_stack = <<>>
    /\ zoom_factor = ZoomOne
    /\ pixmap = None
    /\ cropping = FALSE
    /\ drawing = FALSE
    /\ start_point = None
    /\ end_point = None
    /\ drawing_lines = <<>>
    /\ current_path = <<>>

\* ------------------------------------------------------------ load, zoom
\* An open_image that replaces the image and the undo stack and forgets
\* the redo stack and the zoom factor: what C5 excludes.
open_image_keeping(f) ==
    /\ IF ~Loads(f)
       THEN UNCHANGED <<hist_vars, view_vars>>
       ELSE /\ current_image' = f
            /\ undo_stack' = <<[im |-> f, alias |-> FALSE]>>
            /\ pixmap' = update_display(f, zoom_factor, pixmap)
            /\ UNCHANGED <<redo_stack, zoom_factor>>
    /\ UNCHANGED label_vars

\* open_image with the dialog returning file f.  Image.open reads only the
\* header; the pixel data is read by copy(), inside the try.
open_image(f) ==
    /\ IF f.kind = "unreadable"
       THEN UNCHANGED <<hist_vars, view_vars>>
       ELSE IF ~Loads(f)
       THEN /\ current_image' = f
            /\ undo_stack' = Unalias(undo_stack)
            /\ redo_stack' = Unalias(redo_stack)
            /\ UNCHANGED view_vars
       ELSE /\ current_image' = f
            /\ undo_stack' = <<[im |-> copy(f).im, alias |-> ~copy(f).fresh]>>
            /\ redo_stack' = <<>>
            /\ zoom_factor' = ZoomOne
            /\ pixmap' = update_display(f, ZoomOne, pixmap)
    /\ UNCHANGED label_vars

\* A zoom_in that snapshots the image before refreshing the display: what
\* C18 excludes.
ZoomInPushing(levels) ==
    /\ zoom_factor[1] < Pow(5, levels)
    /\ zoom_factor' = ZoomTimes(zoom_factor)
    /\ pixmap' = update_display(current_image, zoom_factor', pixmap)
    /\ undo_stack' =
           IF HasImage(current_image)
           THEN Append(undo_stack, [im |-> current_image, alias |-> FALSE])
           ELSE undo_stack
    /\ redo_stack' = IF HasImage(current_image) THEN <<>> ELSE redo_stack
    /\ UNCHANGED <<current_image, label_vars>>

\* zoom_in and zoom_out, offered while the factor is fewer than levels
\* steps of 1.25 away from 1.0.
ZoomIn(levels) ==
    /\ zoom_factor[1] < Pow(5, levels)
    /\ zoom_factor' = ZoomTimes(zoom_factor)
    /\ pixmap' = update_display(current_image, zoom_factor', pixmap)
    /\ UNCHANGED <<hist_vars, label_vars>>

ZoomOut(levels) ==
    /\ zoom_factor[2] < Pow(5, levels)
    /\ zoom_factor' = ZoomOver(zoom_factor)
    /\ pixmap' = update_display(current_image, zoom_factor', pixmap)
    /\ UNCHANGED <<hist_vars, label_vars>>

zoom_in == ZoomIn(MaxZoomIn)

zoom_out == ZoomOut(MaxZoomOut)

\* ------------------------------------------------------------- undo, redo
\* push_undo: the undo stack after appending a copy of the current image.
push_undo(im, stack) ==
    Append(stack, [im |-> copy(im).im, alias |-> ~copy(im).fresh])

Front(stack) == SubSeq(stack, 1, Len(stack) - 1)
Last(stack) == stack[Len(stack)]

\* What undo does to <<current_image, undo_stack, redo_stack>> when the
\* undo stack has more than one entry.
UndoOf(cur, us, rs) ==
    LET c == copy(Last(Front(us)).im)
        rest == Unalias(Front(us))
    IN <<c.im,
         [rest EXCEPT ![Len(rest)].alias = ~c.fresh],
         Unalias(Append(rs, Last(us)))>>

\* A redo that restores the image without pushing it back onto the undo
\* stack: what C22 excludes.
RedoOfNoPush(cur, us, rs) ==
    LET c == copy(Last(rs).im)
    IN <<c.im, Unalias(us), Unalias(Front(rs))>>

\* What redo does to them when the redo stack is not empty.
RedoOf(cur, us, rs) ==
    LET c == copy(Last(rs).im)
    IN <<c.im,
         Append(Unalias(us), [im |-> copy(c.im).im, alias |-> ~copy(c.im).fresh]),
         Unalias(Front(rs))>>

\* An undo guarded by len(self.undo_stack) > 0: it pops the last entry
\* too, and then undo_stack[-1] raises.  What C3 excludes.
undo_to_empty ==
    /\ IF Len(undo_stack) > 1
       THEN /\ current_image' = UndoOf(current_image, undo_stack, redo_stack)[1]
            /\ undo_stack' = UndoOf(current_image, undo_stack, redo_stack)[2]
            /\ redo_stack' = UndoOf(current_image, undo_stack, redo_stack)[3]
            /\ pixmap' = update_display(current_image', zoom_factor, pixmap)
       ELSE IF Len(undo_stack) = 1
       THEN /\ redo_stack' = Unalias(Append(redo_stack, Last(undo_stack)))
            /\ undo_stack' = <<>>
            /\ UNCHANGED <<current_image, pixmap>>
       ELSE UNCHANGED <<hist_vars, pixmap>>
    /\ UNCHANGED <<zoom_factor, label_vars>>

undo ==
    /\ IF Len(undo_stack) > 1
       THEN /\ current_image' = UndoOf(current_image, undo_stack, redo_stack)[1]
            /\ undo_stack' = UndoOf(current_image, undo_stack, redo_stack)[2]
            /\ redo_stack' = UndoOf(current_image, undo_stack, redo_stack)[3]
            /\ pixmap' = update_display(current_image', zoom_factor, pixmap)
       ELSE /\ UNCHANGED <<hist_vars, pixmap>>
    /\ UNCHANGED <<zoom_factor, label_vars>>

redo ==
    /\ IF redo_stack # <<>>
       THEN /\ current_image' = RedoOf(current_image, undo_stack, redo_stack)[1]
            /\ undo_stack' = RedoOf(current_image, undo_stack, redo_stack)[2]
            /\ redo_stack' = RedoOf(current_image, undo_stack, redo_stack)[3]
            /\ pixmap' = update_display(current_image', zoom_factor, pixmap)
       ELSE /\ UNCHANGED <<hist_vars, pixmap>>
    /\ UNCHANGED <<zoom_factor, label_vars>>

\* ------------------------------------------------------------------ edits
\* The shape shared by resize_image, advanced_rotate, flip_horizontal,
\* flip_vertical, adjust_colors and apply_filter once their dialog is
\* accepted: warn without an image; push_undo (whose copy() raises on an
\* image that cannot be loaded); compute the new image, which may raise;
\* bind it to current_image; update_display.
Edit(raises, new) ==
    /\ HasImage(current_image) => Len(undo_stack) < MaxUndo
    /\ IF ~HasImage(current_image) \/ ~Loads(current_image)
       THEN UNCHANGED <<hist_vars, pixmap>>
       ELSE IF raises
       THEN /\ undo_stack' = push_undo(current_image, undo_stack)
            /\ redo_stack' = <<>>
            /\ UNCHANGED <<current_image, pixmap>>
       ELSE /\ undo_stack' = Unalias(push_undo(current_image, undo_stack))
            /\ redo_stack' = <<>>
            /\ current_image' = new
            /\ pixmap' = update_display(new, zoom_factor, pixmap)
    /\ UNCHANGED <<zoom_factor, label_vars>>

\* Angles entered in the rotate dialog, slider triples of the colour
\* dialog (hundredths).
Angles == {90}
ColorValues == {<<100, 100, 100>>}

resize_image(new_w, new_h) ==
    Edit(FALSE, Resize(current_image, new_w, new_h))

advanced_rotate(angle) ==
    Edit(FALSE, Rotate(current_image, angle))

flip_horizontal == Edit(FALSE, Mirror(current_image))

flip_vertical == Edit(FALSE, Flip(current_image))

adjust_colors(v) ==
    Edit(AdjustRaises(current_image),
         AdjustColors(current_image, v[1], v[2], v[3]))

apply_filter(filter_name) ==
    Edit(FilterRaises(filter_name),
         Filter(filter_name, current_image))

\* --------------------------------------------------------------- mapping
\* A mapping that scales by displayed / source, the inverse of the scale
\* the code uses: what C10 excludes.
ToImageInverted(c2, lw, pw, iw) == Trunc((c2 - (lw - pw)) * pw, 2 * iw)

\* (c - offset) * scale truncated to an integer, for a label coordinate c
\* doubled (c2 = 2 * c), label extent lw, pixmap extent pw > 0 and image
\* extent iw: offset = (lw - pw) / 2, scale = iw / pw.
ToImage(c2, lw, pw, iw) == Trunc((c2 - (lw - pw)) * iw, 2 * pw)

\* QRect(p, q).normalized() as <<x, y, width, height>>: the corners are
\* swapped on an axis only when q lies more than one pixel before p.
Normalized(p, q) ==
    LET x1 == IF q[1] < p[1] - 1 THEN q[1] ELSE p[1]
        x2 == IF q[1] < p[1] - 1 THEN p[1] ELSE q[1]
        y1 == IF q[2] < p[2] - 1 THEN q[2] ELSE p[2]
        y2 == IF q[2] < p[2] - 1 THEN p[2] ELSE q[2]
    IN <<x1, y1, x2 - x1 + 1, y2 - y1 + 1>>

\* A bounds test that looks at the left and top edges only: what C11
\* excludes.
CropOutOfBoundsLeftTop(rect, pm) ==
    \/ 2 * rect[1] - (LabelSize(pm)[1] - pm[1]) < 0
    \/ 2 * rect[2] - (LabelSize(pm)[2] - pm[2]) < 0

\* The bounds test of crop_image on the rectangle moved by the offset
\* (coordinates doubled).
CropOutOfBounds(rect, pm) ==
    LET x2 == 2 * rect[1] - (LabelSize(pm)[1] - pm[1])
        y2 == 2 * rect[2] - (LabelSize(pm)[2] - pm[2])
    IN \/ x2 < 0
       \/ y2 < 0
       \/ x2 + 2 * rect[3] > 2 * pm[1]
       \/ y2 + 2 * rect[4] > 2 * pm[2]

\* crop_box of crop_image: (left, top, right, bottom) in image pixels.
CropBox(rect, pm, im) ==
    LET lw == LabelSize(pm)[1]
        lh == LabelSize(pm)[2]
    IN <<ToImage(2 * rect[1], lw, pm[1], im.w),
         ToImage(2 * rect[2], lh, pm[2], im.h),
         ToImage(2 * (rect[1] + rect[3]), lw, pm[1], im.w),
         ToImage(2 * (rect[2] + rect[4]), lh, pm[2], im.h)>>

\* ------------------------------------------------------------ rasterizing
\* draw.line of one segment from image pixel a to image pixel b (0-based)
\* with the brush width: a segment of no length is a single point; else
\* the pixels within half the width of the segment, across it.
SegmentCovers(a, b, c) ==
    LET dx == b[1] - a[1]
        dy == b[2] - a[2]
        hw == (brush_size - 1) \div 2
        ex == IF dy # 0 THEN hw ELSE 0
        ey == IF dx # 0 THEN hw ELSE 0
    IN IF dx = 0 /\ dy = 0 THEN c = a
       ELSE /\ c[1] >= Min(a[1], b[1]) - ex /\ c[1] <= Max(a[1], b[1]) + ex
            /\ c[2] >= Min(a[2], b[2]) - ey /\ c[2] <= Max(a[2], b[2]) + ey
            /\ Abs((c[1] - a[1]) * dy - (c[2] - a[2]) * dx)
                   <= hw * Max(Abs(dx), Abs(dy))

\* The point of a path converted as apply_drawing converts it.
Converted(pt, pm, im) ==
    <<ToImage(2 * pt[1], LabelSize(pm)[1], pm[1], im.w),
      ToImage(2 * pt[2], LabelSize(pm)[2], pm[2], im.h)>>

\* The image after apply_drawing has drawn every path of more than one
\* point onto it.
Rasterize(im, lines, pm) ==
    LET Hit(c) ==
            \E k \in 1..Len(lines) :
                /\ Len(lines[k]) > 1
                /\ \E i \in 1..(Len(lines[k]) - 1) :
                       SegmentCovers(Converted(lines[k][i], pm, im),
                                     Converted(lines[k][i + 1], pm, im),
                                     <<c[1] - 1, c[2] - 1>>)
    IN MkImage(im.w, im.h,
               [c \in Cells(im.w, im.h) |->
                   IF Hit(c) THEN brush_color ELSE im.px[c[2]][c[1]]])

\* A stack whose entries that are the current image's own object follow
\* an in-place change of it.
FollowAlias(stack, im) ==
    [i \in 1..Len(stack) |->
        IF stack[i].alias THEN [stack[i] EXCEPT !.im = im] ELSE stack[i]]

\* ------------------------------------------------------- crop, draw modes
\* crop_mode: turns cropping on with an image, warns without.
crop_mode ==
    /\ cropping' = IF HasImage(current_image) THEN TRUE ELSE cropping
    /\ UNCHANGED <<hist_vars, view_vars, drawing, start_point, end_point,
                   drawing_lines, current_path>>

\* crop_image, called by mouseReleaseEvent with the normalized rectangle:
\* returns without a pixmap; rejects a rectangle out of bounds and leaves
\* crop mode; raises on the division by a pixmap extent of zero or in
\* push_undo's copy(); else snapshots, crops and leaves crop mode.
crop_image(rect) ==
    IF pixmap = None
    THEN UNCHANGED <<hist_vars, pixmap, cropping>>
    ELSE IF CropOutOfBounds(rect, pixmap)
    THEN /\ UNCHANGED <<hist_vars, pixmap>>
         /\ cropping' = FALSE
    ELSE IF pixmap[1] = 0 \/ pixmap[2] = 0 \/ ~Loads(current_image)
    THEN UNCHANGED <<hist_vars, pixmap, cropping>>
    ELSE /\ undo_stack' = Unalias(push_undo(current_image, undo_stack))
         /\ redo_stack' = <<>>
         /\ current_image' =
                Crop(current_image, CropBox(rect, pixmap, current_image))
         /\ pixmap' = update_display(current_image', zoom_factor, pixmap)
         /\ cropping' = FALSE

\* The positions pointer events are delivered at (label coordinates).
PointerPos == {<<0, 0>>, <<1, 1>>}

\* Python truth of a QPoint attribute: None and the null point (0, 0)
\* are false.
PointTrue(p) == p # None /\ p # <<0, 0>>

mousePressEvent(pos) ==
    /\ IF cropping
       THEN /\ start_point' = pos
            /\ end_point' = pos
            /\ UNCHANGED current_path
       ELSE IF drawing
       THEN /\ current_path' = <<pos>>
            /\ UNCHANGED <<start_point, end_point>>
       ELSE UNCHANGED <<start_point, end_point, current_path>>
    /\ UNCHANGED <<hist_vars, view_vars, cropping, drawing, drawing_lines>>

\* A mouseMoveEvent that extends the live path in drawing mode whether or
\* not a press began one: what C17 excludes.
mouseMoveEventAnyPath(pos) ==
    /\ IF cropping /\ PointTrue(start_point)
       THEN /\ end_point' = pos
            /\ UNCHANGED current_path
       ELSE IF drawing
       THEN /\ Len(current_path) < MaxPath - 1
            /\ current_path' = Append(current_path, pos)
            /\ UNCHANGED end_point
       ELSE UNCHANGED <<end_point, current_path>>
    /\ UNCHANGED <<hist_vars, view_vars, cropping, drawing, start_point,
                   drawing_lines>>

mouseMoveEvent(pos) ==
    /\ IF cropping /\ PointTrue(start_point)
       THEN /\ end_point' = pos
            /\ UNCHANGED current_path
       ELSE IF drawing /\ current_path # <<>>
       THEN /\ Len(current_path) < MaxPath - 1
            /\ current_path' = Append(current_path, pos)
            /\ UNCHANGED end_point
       ELSE UNCHANGED <<end_point, current_path>>
    /\ UNCHANGED <<hist_vars, view_vars, cropping, drawing, start_point,
                   drawing_lines>>

\* mouseReleaseEvent; self.crop_rect is set and handed to crop_callback
\* (crop_image) at once and read nowhere else, so it is not kept.
mouseReleaseEvent(pos) ==
    /\ IF cropping /\ PointTrue(start_point)
       THEN /\ Len(undo_stack) < MaxUndo
            /\ start_point' = None
            /\ end_point' = None
            /\ crop_image(Normalized(start_point, pos))
            /\ UNCHANGED <<drawing_lines, current_path>>
       ELSE IF drawing /\ current_path # <<>>
       THEN /\ Len(drawing_lines) < MaxLines
            /\ drawing_lines' = Append(drawing_lines, Append(current_path, pos))
            /\ current_path' = <<>>
            /\ UNCHANGED <<hist_vars, pixmap, cropping, start_point, end_point>>
       ELSE UNCHANGED <<hist_vars, pixmap, cropping, start_point, end_point,
                        drawing_lines, current_path>>
    /\ UNCHANGED <<zoom_factor, drawing>>

\* apply_drawing, called by toggle_drawing when drawing is turned off:
\* returns without paths or pixmap; raises when ImageDraw.Draw cannot load
\* the image or on the division by a pixmap extent of zero; else draws the
\* paths into the current image's own buffer and clears them.
apply_drawing ==
    IF drawing_lines = <<>> \/ pixmap = None
    THEN UNCHANGED <<hist_vars, pixmap, drawing_lines>>
    ELSE IF ~Loads(current_image) \/ pixmap[1] = 0 \/ pixmap[2] = 0
    THEN UNCHANGED <<hist_vars, pixmap, drawing_lines>>
    ELSE /\ current_image' = Rasterize(current_image, drawing_lines, pixmap)
         /\ undo_stack' = FollowAlias(undo_stack, current_image')
         /\ redo_stack' = FollowAlias(redo_stack, current_image')
         /\ drawing_lines' = <<>>
         /\ pixmap' = update_display(current_image', zoom_factor, pixmap)

toggle_drawing ==
    /\ IF HasImage(current_image)
       THEN /\ drawing' = ~drawing
            /\ IF drawing'
               THEN UNCHANGED <<hist_vars, pixmap, drawing_lines>>
               ELSE apply_drawing
       ELSE UNCHANGED <<hist_vars, pixmap, drawing, drawing_lines>>
    /\ UNCHANGED <<zoom_factor, cropping, start_point, end_point,
                   current_path>>

\* ------------------------------------------------------------------ system
Next ==
    \/ \E f \in Files : open_image(f)
    \/ zoom_in
    \/ zoom_out
    \/ crop_mode
    \/ \E pos \in PointerPos : mousePressEvent(pos)
    \/ \E pos \in PointerPos : mouseMoveEvent(pos)
    \/ \E pos \in PointerPos : mouseReleaseEvent(pos)
    \/ \E new_w \in 1..MaxDim : resize_image(new_w, new_w)
    \/ \E angle \in Angles : advanced_rotate(angle)
    \/ flip_horizontal
    \/ flip_vertical
    \/ \E v \in ColorValues : adjust_colors(v)
    \/ \E filter_name \in FilterNames : apply_filter(filter_name)
    \/ toggle_drawing
    \/ undo
    \/ redo

Spec == Init /\ [][Next]_vars

\* ------------------------------------------------ the coordinate mapping
\* The mapping is exercised over blank images of every size up to MapDim,
\* loaded through open_image and shown at up to MapZoomIn levels above and
\* MapZoomOut levels below 1.0.
MapDim == 5
MapZoomIn == 3
MapZoomOut == 1

Blank(w, h) == MkImage(w, h, [c \in Cells(w, h) |-> White])
MapFiles == {Blank(w, h) : w \in 1..MapDim, h \in 1..MapDim}

NextMap ==
    \/ \E f \in MapFiles : open_image(f)
    \/ ZoomIn(MapZoomIn)
    \/ ZoomOut(MapZoomOut)

SpecMap == Init /\ [][NextMap]_vars

\* ------------------------------------------------------ the crop gesture
\* Crop gestures are exercised over blank images of every size up to
\* CropDim, at up to CropZoomIn levels above and CropZoomOut levels below
\* 1.0, with the pointer at every label position up to CropGrid on each
\* axis.
CropDim == 3
CropZoomIn == 2
CropZoomOut == 1
CropGrid == 3

CropFiles == {Blank(w, h) : w \in 1..CropDim, h \in 1..CropDim}
CropPos == (0..CropGrid) \X (0..CropGrid)

NextCrop ==
    \/ \E f \in CropFiles : open_image(f)
    \/ ZoomIn(CropZoomIn)
    \/ ZoomOut(CropZoomOut)
    \/ crop_mode
    \/ \E pos \in CropPos : mousePressEvent(pos)
    \/ \E pos \in CropPos : mouseReleaseEvent(pos)

SpecCrop == Init /\ [][NextCrop]_vars

\* -------------------------------------------------------------- strokes
\* Strokes are drawn on a blank image StrokeDim pixels wide and high, at
\* up to StrokeZoomIn levels above and StrokeZoomOut levels below 1.0,
\* with the pointer at the label positions of the diagonal up to
\* StrokeGrid.
StrokeDim == 5
StrokeZoomIn == 3
StrokeZoomOut == 1
StrokeGrid == 4

StrokeFile == Blank(StrokeDim, StrokeDim)
StrokePos == {<<c, c>> : c \in 0..StrokeGrid}

NextStroke ==
    \/ open_image(StrokeFile)
    \/ ZoomIn(StrokeZoomIn)
    \/ ZoomOut(StrokeZoomOut)
    \/ toggle_drawing
    \/ \E pos \in StrokePos : mousePressEvent(pos)
    \/ \E pos \in StrokePos : mouseReleaseEvent(pos)

SpecStroke == Init /\ [][NextStroke]_vars

\* ============================================================ properties
PixelEqual(a, b) == a.w = b.w /\ a.h = b.h /\ a.px = b.px

\* The rectangles a crop gesture can hand to crop_image and that it
\* accepts, in the current display.
CropRects ==
    IF pixmap = None THEN {}
    ELSE IF pixmap[1] = 0 \/ pixmap[2] = 0 THEN {}
    ELSE {r \in {Normalized(p, q) :
                    p \in {a \in PointerPos : PointTrue(a)}, q \in PointerPos} :
             ~CropOutOfBounds(r, pixmap)}

\* The images the snapshot-and-replace edits can make of im: resize,
\* rotate, the two flips, adjust colors, the filters that do not raise,
\* and crop.
EditResults(im) ==
    {Resize(im, n, n) : n \in 1..MaxDim}
    \cup {Rotate(im, a) : a \in Angles}
    \cup {Mirror(im), Flip(im)}
    \cup {AdjustColors(im, v[1], v[2], v[3]) :
             v \in {u \in ColorValues : ~AdjustRaises(im)}}
    \cup {Filter(n, im) : n \in {m \in FilterNames : ~FilterRaises(m)}}
    \cup {Crop(im, CropBox(r, pixmap, im)) : r \in CropRects}

\* C1: after a load, for every edit that snapshots and then replaces the
\* current image, undo followed by redo leaves the current image
\* pixel-equal to the post-edit image.
C1_UndoRedoRestoresPostEdit ==
    (Loads(current_image) /\ undo_stack # <<>>) =>
        \A new \in EditResults(current_image) :
            LET e == Unalias(push_undo(current_image, undo_stack))
                u == UndoOf(new, e, <<>>)
                r == RedoOf(u[1], u[2], u[3])
            IN PixelEqual(r[1], new)

\* C2: undo right after an edit makes the current image pixel-equal to the
\* image that was current just before that edit, for every edit of a
\* session and not only the first one after the load.
C2_UndoRestoresPreEdit ==
    (Loads(current_image) /\ undo_stack # <<>>) =>
        \A new \in EditResults(current_image) :
            LET e == Unalias(push_undo(current_image, undo_stack))
                u == UndoOf(new, e, <<>>)
            IN PixelEqual(u[1], current_image)

\* C3: once an image is loaded the undo stack is never empty: a step never
\* empties it, and undo on a stack of exactly one entry leaves the current
\* image and both stacks as they are.
C3_UndoKeepsLoadedEntry ==
    [][/\ Loads(current_image) => Len(undo_stack) >= 1
       /\ Len(undo_stack) >= 1 => Len(undo_stack') >= 1
       /\ (undo /\ Len(undo_stack) = 1) => UNCHANGED hist_vars]_vars

\* A state where undo has nothing left to undo after an edit was undone.
C3_Witness ==
    Loads(current_image) /\ Len(undo_stack) = 1 /\ redo_stack # <<>>

\* The operations that change the pixels of the current image.
EditStep ==
    \/ \E pos \in PointerPos : mouseReleaseEvent(pos)
    \/ \E new_w \in 1..MaxDim : resize_image(new_w, new_w)
    \/ \E angle \in Angles : advanced_rotate(angle)
    \/ flip_horizontal
    \/ flip_vertical
    \/ \E v \in ColorValues : adjust_colors(v)
    \/ \E filter_name \in FilterNames : apply_filter(filter_name)
    \/ toggle_drawing

\* C4: every operation that changes the pixels of the current image (the
\* edits, and applying the captured strokes) has pushed a copy of the
\* image as it was onto the undo stack and emptied the redo stack.
C4_SnapshotBeforeEveryChange ==
    [][(EditStep /\ Loads(current_image) /\ current_image' # current_image)
          => /\ undo_stack' =
                    Append(undo_stack, [im |-> current_image, alias |-> FALSE])
             /\ redo_stack' = <<>>]_vars

\* C5: right after a successful load, whatever the image, history and zoom
\* were, the undo stack is one entry pixel-equal to the loaded image, the
\* redo stack is empty and the zoom factor is 1.0.
C5_LoadResetsHistory ==
    [][\A f \in Files :
          (Loads(f) /\ open_image(f))
             => /\ Len(undo_stack') = 1
                /\ PixelEqual(undo_stack'[1].im, f)
                /\ redo_stack' = <<>>
                /\ zoom_factor' = ZoomOne]_vars

\* A state with an image, several undo entries, a redo entry and a zoom
\* other than 1.0: all of it is there for a load to reset.
C5_Witness ==
    /\ Loads(current_image)
    /\ Len(undo_stack) > 1
    /\ redo_stack # <<>>
    /\ zoom_factor # ZoomOne

\* The edits that fail: a filter or a colour adjustment whose pixel
\* algorithm raises, and a crop whose rectangle is rejected.
FailedEdit ==
    \/ \E filter_name \in FilterNames :
          FilterRaises(filter_name) /\ apply_filter(filter_name)
    \/ \E v \in ColorValues :
          AdjustRaises(current_image) /\ adjust_colors(v)
    \/ \E pos \in PointerPos :
          /\ cropping /\ PointTrue(start_point) /\ pixmap # None
          /\ CropOutOfBounds(Normalized(start_point, pos), pixmap)
          /\ mouseReleaseEvent(pos)

\* C6: an edit that fails leaves the current image, the undo stack and the
\* redo stack exactly as they were before it was invoked.
C6_FailedEditChangesNothing ==
    [][(Loads(current_image) /\ FailedEdit) => UNCHANGED hist_vars]_vars

\* C7: Cropping and Drawing are never both active.
C7_ModesExclusive == ~(cropping /\ drawing)

NoAlias(stack) == \A i \in 1..Len(stack) : ~stack[i].alias
SamePrefix(s, t) == \A i \in 1..Min(Len(s), Len(t)) : s[i].im = t[i].im
HasBrush(im) ==
    \E c \in Cells(im.w, im.h) : im.px[c[2]][c[1]] = brush_color

\* C8: no entry of the undo or redo stack is the current image's own
\* buffer, and no step other than a load changes the pixels of an entry
\* that stays on its stack: drawing into the current image leaves every
\* snapshot as it was pushed.
C8_SnapshotsIndependent ==
    [][/\ NoAlias(undo_stack) /\ NoAlias(redo_stack)
       /\ \/ \E f \in Files : open_image(f)
          \/ /\ SamePrefix(undo_stack, undo_stack')
             /\ SamePrefix(redo_stack, redo_stack')]_vars

\* Strokes have been drawn into the current image and no snapshot shows
\* them.
C8_Witness ==
    /\ Loads(current_image)
    /\ HasBrush(current_image)
    /\ undo_stack # <<>>
    /\ \A i \in 1..Len(undo_stack) : ~HasBrush(undo_stack[i].im)

\* The current image once undo has been invoked until it reports that
\* there is nothing to undo.
RECURSIVE UndoAll(_, _, _)
UndoAll(cur, us, rs) ==
    IF Len(us) > 1
    THEN UndoAll(UndoOf(cur, us, rs)[1], UndoOf(cur, us, rs)[2],
                 UndoOf(cur, us, rs)[3])
    ELSE cur

\* C9: after a load, undoing until nothing is left to undo leaves the
\* current image pixel-equal to the image as loaded (the first entry of
\* the undo stack), whatever edits, strokes, undos and redos came before.
C9_UndoAllRestoresLoaded ==
    (Loads(current_image) /\ undo_stack # <<>>) =>
        PixelEqual(UndoAll(current_image, undo_stack, redo_stack),
                   undo_stack[1].im)

\* The label coordinates, on an axis of label extent lw, that lie inside a
\* displayed bitmap of extent pw centred in it.
Inside(lw, pw) ==
    {c \in 0..lw : 2 * c - (lw - pw) >= 0 /\ 2 * c - (lw - pw) <= 2 * pw}

\* 2 * iw times the distance, in displayed pixels, between the point c
\* less the centering offset and its image coordinate projected back with
\* the inverse scale pw / iw.
RoundTrip(c, lw, pw, iw) ==
    Abs((2 * c - (lw - pw)) * iw - 2 * ToImage(2 * c, lw, pw, iw) * pw)

\* Every point inside the displayed bitmap comes back within tol / (2 * iw)
\* displayed pixels on each axis, tol taken from the two extents.
RoundTripWithin(tolx, toly) ==
    (Loads(current_image) /\ pixmap # None /\ pixmap # NullPixmap) =>
        /\ \A c \in Inside(LabelSize(pixmap)[1], pixmap[1]) :
               RoundTrip(c, LabelSize(pixmap)[1], pixmap[1], current_image.w)
                   <= tolx
        /\ \A c \in Inside(LabelSize(pixmap)[2], pixmap[2]) :
               RoundTrip(c, LabelSize(pixmap)[2], pixmap[2], current_image.h)
                   <= toly

\* C10 as stated: at every zoom factor, every point inside the displayed
\* bitmap maps to image space and back to within one displayed pixel of
\* itself on each axis.
C10_RoundTripOneDisplayedPixel ==
    (Loads(current_image) /\ pixmap # None) =>
        RoundTripWithin(2 * current_image.w, 2 * current_image.h)

\* C10, amended: the point comes back within one image pixel of itself,
\* which is max(1, displayed size / source size) displayed pixels: one
\* displayed pixel at zoom factors up to 1.0, more above.
C10_RoundTripOneImagePixel ==
    (Loads(current_image) /\ pixmap # None) =>
        RoundTripWithin(2 * Max(current_image.w, pixmap[1]),
                        2 * Max(current_image.h, pixmap[2]))

\* A display zoomed beyond 1.0 in which a point inside the bitmap comes
\* back more than one displayed pixel away.
C10_Witness ==
    /\ Loads(current_image) /\ pixmap # None /\ pixmap # NullPixmap
    /\ pixmap[1] > current_image.w
    /\ \E c \in Inside(LabelSize(pixmap)[1], pixmap[1]) :
           RoundTrip(c, LabelSize(pixmap)[1], pixmap[1], current_image.w)
               > 2 * current_image.w

\* Both corners of rect, less the centering offset, lie in
\* [0, displayed width] x [0, displayed height] (coordinates doubled).
InDisplayed(rect, pm) ==
    LET x2 == 2 * rect[1] - (LabelSize(pm)[1] - pm[1])
        y2 == 2 * rect[2] - (LabelSize(pm)[2] - pm[2])
    IN /\ 0 <= x2 /\ x2 <= 2 * pm[1]
       /\ 0 <= x2 + 2 * rect[3] /\ x2 + 2 * rect[3] <= 2 * pm[1]
       /\ 0 <= y2 /\ y2 <= 2 * pm[2]
       /\ 0 <= y2 + 2 * rect[4] /\ y2 + 2 * rect[4] <= 2 * pm[2]

\* The release at pos of a crop gesture, handled by crop_image, which has
\* applied the crop (it pushed its snapshot).
CropApplied(pos) ==
    /\ cropping /\ PointTrue(start_point)
    /\ mouseReleaseEvent(pos)
    /\ Len(undo_stack') > Len(undo_stack)

\* C11: a crop is applied only if its rectangle, less the centering
\* offset, lies within the displayed bitmap (any other rectangle leaves
\* the image and the stacks alone); the box of an applied crop satisfies
\* 0 <= left <= right <= width and 0 <= top <= bottom <= height, and the
\* new image measures (right - left, bottom - top).
C11_CropWithinBounds ==
    [][\A pos \in CropPos :
          LET rect == Normalized(start_point, pos)
              box == CropBox(rect, pixmap, current_image)
          IN /\ CropApplied(pos) =>
                    /\ InDisplayed(rect, pixmap)
                    /\ 0 <= box[1] /\ box[1] <= box[3]
                    /\ box[3] <= current_image.w
                    /\ 0 <= box[2] /\ box[2] <= box[4]
                    /\ box[4] <= current_image.h
                    /\ current_image'.w = box[3] - box[1]
                    /\ current_image'.h = box[4] - box[2]
             /\ ( /\ cropping /\ PointTrue(start_point) /\ pixmap # None
                  /\ ~InDisplayed(rect, pixmap)
                  /\ mouseReleaseEvent(pos) ) => UNCHANGED hist_vars]_vars

\* A crop made at a zoom other than 1.0 has cut the image down to a
\* smaller one that is not empty.
C11_Witness ==
    /\ Loads(current_image)
    /\ Len(undo_stack) = 2
    /\ zoom_factor # ZoomOne
    /\ current_image.w >= 1 /\ current_image.h >= 1
    /\ current_image.w < undo_stack[2].im.w
    /\ current_image.h < undo_stack[2].im.h

\* C12: with an image loaded, the current image and every snapshot of the
\* undo and redo stacks are at least one pixel wide and high (so a crop
\* whose image-space box is empty must not replace the current image).
C12_ImagesNeverEmpty ==
    Loads(current_image) =>
        /\ current_image.w >= 1 /\ current_image.h >= 1
        /\ \A i \in 1..Len(undo_stack) :
               undo_stack[i].im.w >= 1 /\ undo_stack[i].im.h >= 1
        /\ \A i \in 1..Len(redo_stack) :
               redo_stack[i].im.w >= 1 /\ redo_stack[i].im.h >= 1

\* C13: for the image the Sepia filter is applied to, the table has an
\* entry for every luminance 0..255, equal to
\* (floor(L*240/255), floor(L*200/255), floor(L*145/255)); so 255 maps to
\* (240, 200, 145) and 0 to (0, 0, 0).
C13_SepiaTableComplete ==
    Loads(current_image) =>
        \A L \in 0..255 :
            /\ L \in DOMAIN sepia
            /\ sepia[L] = <<(L * 240) \div 255, (L * 200) \div 255,
                            (L * 145) \div 255>>

\* C14: entering Drawing mode over a loaded image starts with an empty
\* live path, so that a move or release arriving before a new press finds
\* no path to extend or commit, also when Drawing was left between a
\* press and its release.
C14_ReenterDrawingStartsEmpty ==
    [][( /\ Loads(current_image)
         /\ toggle_drawing
         /\ ~drawing /\ drawing' ) => current_path' = <<>>]_vars

\* C15: leaving Drawing mode over a loaded image that is not empty, with
\* a pixmap on the label, leaves no completed path waiting to be applied
\* (they have been rasterized and cleared), so that no state with Drawing
\* mode off holds such a path.
C15_NoPathsOutsideDrawing ==
    [][( /\ Loads(current_image)
         /\ current_image.w >= 1 /\ current_image.h >= 1
         /\ pixmap # None
         /\ toggle_drawing
         /\ drawing /\ ~drawing' ) => drawing_lines' = <<>>]_vars

\* A crop gesture is in progress over a displayed image: crop mode is on
\* and a press has set the anchor point.
CropGesture ==
    /\ Loads(current_image) /\ pixmap # None
    /\ cropping /\ start_point # None

\* C16: the release of a crop gesture cannot leave Cropping mode on,
\* whether the crop is applied or rejected, and cannot change the undo
\* stack other than by pushing exactly one snapshot.
C16_CropReleaseLeavesCropping ==
    CropGesture =>
        \A pos \in PointerPos :
            /\ ~ENABLED (mouseReleaseEvent(pos) /\ cropping')
            /\ ~ENABLED ( /\ mouseReleaseEvent(pos)
                          /\ undo_stack' # undo_stack
                          /\ Len(undo_stack') # Len(undo_stack) + 1 )

\* What a pointer event that does not belong to a gesture must leave
\* alone.
gesture_vars ==
    <<start_point, end_point, current_path, drawing_lines, hist_vars>>

C18_ZoomReadOnly ==
    [][/\ (zoom_in \/ zoom_out) => UNCHANGED <<hist_vars, cropping, drawing>>
       /\ zoom_factor'[1] > 0 /\ zoom_factor'[2] > 0]_vars

\* The view of an edited image with something to redo has been zoomed
\* while crop mode is on.
C18_Witness ==
    /\ Loads(current_image)
    /\ Len(undo_stack) > 1 /\ redo_stack # <<>>
    /\ zoom_factor # ZoomOne
    /\ cropping

\* An operation that needs an image, or undo or redo.
NeedsImage ==
    \/ crop_mode
    \/ \E new_w \in 1..MaxDim : resize_image(new_w, new_w)
    \/ \E angle \in Angles : advanced_rotate(angle)
    \/ flip_horizontal
    \/ flip_vertical
    \/ \E v \in ColorValues : adjust_colors(v)
    \/ \E filter_name \in FilterNames : apply_filter(filter_name)
    \/ toggle_drawing
    \/ undo
    \/ redo

\* C19: while no load has succeeded (the undo stack has no loaded entry),
\* an operation that needs an image, undo and redo leave the image and
\* both stacks as they are, with neither Cropping nor Drawing mode on.
C19_NoImageNoEffect ==
    [][(undo_stack = <<>> /\ NeedsImage) =>
           /\ UNCHANGED hist_vars
           /\ ~cropping' /\ ~drawing']_vars

\* The zoom factors zoom_in and zoom_out can set before the paths are
\* applied.
StrokeZooms ==
    {<<Pow(5, k), Pow(4, k)>> : k \in 0..StrokeZoomIn}
        \cup {<<Pow(4, k), Pow(5, k)>> : k \in 1..StrokeZoomOut}

\* The label position pos lies over a pixel of the image displayed as pm.
OverImage(pos, pm) ==
    /\ 2 * pos[1] - (LabelSize(pm)[1] - pm[1]) >= 0
    /\ 2 * pos[1] - (LabelSize(pm)[1] - pm[1]) < 2 * pm[1]
    /\ 2 * pos[2] - (LabelSize(pm)[2] - pm[2]) >= 0
    /\ 2 * pos[2] - (LabelSize(pm)[2] - pm[2]) < 2 * pm[2]

\* The release at pos commits a stroke whose last point is captured over
\* the displayed image.
StrokeCommitted(pos) ==
    /\ Loads(current_image)
    /\ pixmap # None /\ pixmap # NullPixmap
    /\ OverImage(pos, pixmap)
    /\ drawing /\ current_path # <<>>
    /\ mouseReleaseEvent(pos)
    /\ drawing_lines' # drawing_lines

\* C20: a point committed to a stroke over image pixel (i, j), at the
\* zoom and offset in effect at the pointer event, is converted by
\* apply_drawing to within one pixel of (i, j) on each axis at whatever
\* zoom factor zoom_in and zoom_out have set by then.
C20_StrokePointKeepsPixel ==
    [][\A pos \in StrokePos :
          StrokeCommitted(pos) =>
              \A z \in StrokeZooms :
                  LET pm == PixmapOf(current_image, z)
                      at_capture == Converted(pos, pixmap, current_image)
                      at_apply == Converted(pos, pm, current_image)
                  IN pm # NullPixmap =>
                         /\ Abs(at_apply[1] - at_capture[1]) <= 1
                         /\ Abs(at_apply[2] - at_capture[2]) <= 1]_vars

\* C21: a load that fails, at Image.open, at the copy into the first
\* snapshot or at the display refresh, leaves the current image, the undo
\* stack, the redo stack and the zoom factor exactly as they were.
C21_FailedLoadChangesNothing ==
    [][\A f \in Files :
          (~Loads(f) /\ open_image(f)) =>
              UNCHANGED <<hist_vars, zoom_factor>>]_vars

\* The images of a stack, bottom first.
Images(stack) == [i \in 1..Len(stack) |-> stack[i].im]

\* undo and redo as they act on <<current_image, undo_stack, redo_stack>>,
\* nothing to undo or redo included.
UndoStep(h) == IF Len(h[2]) > 1 THEN UndoOf(h[1], h[2], h[3]) ELSE h
RedoStep(h) == IF h[3] # <<>> THEN RedoOf(h[1], h[2], h[3]) ELSE h

\* C22: in every state where undo succeeds, undo followed at once by redo
\* leaves the undo stack and the redo stack with the same images in the
\* same order as before the undo; where redo succeeds, redo followed at
\* once by undo leaves both as before the redo.
C22_UndoRedoInverseOnStacks ==
    /\ Len(undo_stack) > 1 =>
           LET h == RedoStep(UndoStep(hist_vars))
           IN /\ Images(h[2]) = Images(undo_stack)
              /\ Images(h[3]) = Images(redo_stack)
    /\ redo_stack # <<>> =>
           LET h == UndoStep(RedoStep(hist_vars))
           IN /\ Images(h[2]) = Images(undo_stack)
              /\ Images(h[3]) = Images(redo_stack)

\* After an edit that changed the image and an undo, both an undo and a
\* redo can succeed, and they move different images.
C22_Witness ==
    /\ Len(undo_stack) > 1
    /\ redo_stack # <<>>
    /\ Last(redo_stack).im # Last(undo_stack).im
    /\ current_image = Last(undo_stack).im

====
